---- MODULE Spec2Model ----
(***************************************************************************)
(* compare-bundle-size: the diff-to-report pipeline of utils.mjs (kept in  *)
(* src/README.md from line 31 on) and the two commands of the CLI          *)
(* (src/unnamed/part_000).                                                 *)
(*                                                                         *)
(* Text is modelled character by character: a JavaScript string is a       *)
(* sequence of one-character strings, so that "ends with", "same length",  *)
(* "first occurrence" and the number of '|' separated columns of a line    *)
(* are all things the model computes.  An emoji is one element, written    *)
(* as an ASCII name in brackets: "[new]" for U+1F195 and so on.            *)
(***************************************************************************)
EXTENDS Integers, Sequences, FiniteSets, TLC

VARIABLES
    pc,             \* position of the running program
    delta,          \* getDeltaText / iconForDifference: first argument
    originalSize,   \* getDeltaText / iconForDifference: second argument
    deltaText,      \* value returned by getDeltaText
    icon,           \* value returned by iconForDifference
    rows,           \* markdownTable: its argument (mutated in place)
    rowsArg,        \* history: the argument as it was when markdownTable was called
    columnLength,   \* markdownTable: local columnLength
    tableOut,       \* markdownTable: returned string
    caller,         \* who called markdownTable: "none", "changed", "unchanged"
    files,          \* diffTable: argument files
    options,        \* diffTable: the options object
    idx,            \* diffTable: position of the for-of loop
    changedRows,    \* diffTable: local changedRows
    unChangedRows,  \* diffTable: local unChangedRows
    totalSize,      \* diffTable: local totalSize
    totalDelta,     \* diffTable: local totalDelta
    out,            \* diffTable: local out, its result
    regex,          \* stripHash: the pattern
    fileName,       \* stripHash: argument of the returned function
    stripped,       \* stripHash: value returned by the returned function
    cmd,            \* CLI: "compare" or "update"
    disk,           \* CLI: what plugin.readFromDisk returns
    sizes,          \* CLI: local sizes
    gist,           \* remote gist: the stored bundle-stats.json file
    net,            \* how the next request to the gist API ends
    prev,           \* compare: local prev
    errorLog,       \* what console.error received
    stdout          \* what console.log received

classifierVars == <<delta, originalSize, deltaText, icon>>
tableVars == <<rows, rowsArg, columnLength, tableOut, caller>>
diffVars == <<files, options, idx, changedRows, unChangedRows, totalSize, totalDelta, out>>
stripVars == <<regex, fileName, stripped>>
cliVars == <<cmd, disk, sizes, gist, net, prev, errorLog, stdout>>
vars == <<pc, classifierVars, tableVars, diffVars, stripVars, cliVars>>

(***************************************************************************)
(* Bounds of the model.                                                    *)
(***************************************************************************)
MaxDelta == 100
MaxOrig == 200
MaxRows == 2
MaxFiles == 2
MaxPatternLen == 2
MaxNameLen == 3

(***************************************************************************)
(* Strings as sequences of characters.                                     *)
(***************************************************************************)
Abs(n) == IF n < 0 THEN -n ELSE n

RECURSIVE Gcd(_, _)
Gcd(a, b) == IF b = 0 THEN a ELSE Gcd(b, a % b)

RECURSIVE NatChars(_)
\* String(n) for an integer n >= 0
NatChars(n) == IF n < 10 THEN <<ToString(n)>> ELSE NatChars(n \div 10) \o <<ToString(n % 10)>>

\* `${n}` for an integer n
IntChars(n) == IF n < 0 THEN <<"-">> \o NatChars(-n) ELSE NatChars(n)

StartsWith(s, p) == Len(p) <= Len(s) /\ SubSeq(s, 1, Len(p)) = p

EndsWith(s, p) == Len(p) <= Len(s) /\ SubSeq(s, Len(s) - Len(p) + 1, Len(s)) = p

\* String.prototype.indexOf: the first position (from 1) of sub in s, 0 if none
IndexOf(s, sub) ==
    LET hits == {p \in 1..(Len(s) - Len(sub) + 1) : SubSeq(s, p, p + Len(sub) - 1) = sub}
    IN  IF hits = {} THEN 0 ELSE CHOOSE p \in hits : \A q \in hits : p <= q

Contains(s, sub) == IndexOf(s, sub) # 0

\* s.replace(sub, rep) with a string pattern: only the first occurrence is replaced
ReplaceFirst(s, sub, rep) ==
    LET p == IndexOf(s, sub)
    IN  IF p = 0 THEN s
        ELSE SubSeq(s, 1, p - 1) \o rep \o SubSeq(s, p + Len(sub), Len(s))

RECURSIVE Join(_, _)
\* Array.prototype.join
Join(parts, sep) ==
    IF Len(parts) = 0 THEN <<>>
    ELSE IF Len(parts) = 1 THEN parts[1]
    ELSE parts[1] \o sep \o Join(Tail(parts), sep)

(***************************************************************************)
(* pretty-bytes.  Below 1000 the unit is B and the number is printed as    *)
(* it is, with '-' in front of a negative one; the model's sizes stay      *)
(* below 1000, the kB range is not modelled.                               *)
(***************************************************************************)
prettyBytes(n) ==
    CASE Abs(n) < 1000 -> IntChars(n) \o <<" ", "B">>

(***************************************************************************)
(* Math.round((delta / originalSize) * 100).  Math.round takes a tie to    *)
(* +infinity.  The percentage is a double: the quotient is rounded to a    *)
(* double and so is its product with 100, and for some ratios whose exact  *)
(* percentage is a tie k + 0.5 the double lands one ulp above or below it  *)
(* in magnitude.  FloatAboveTie and FloatBelowTie list those ratios, in    *)
(* lowest terms, for numerators up to 128 (IEEE 754 binary64); every other *)
(* tie in that range is exact, and a value that is no tie is further from  *)
(* one than the rounding error.                                            *)
(***************************************************************************)
FloatAboveTie ==
    {<<7, 200>>, <<11, 40>>, <<49, 40>>, <<83, 40>>, <<93, 40>>, <<109, 200>>, <<111, 200>>}

FloatBelowTie ==
    {<<23, 40>>, <<29, 200>>, <<41, 40>>, <<51, 40>>, <<57, 200>>, <<87, 40>>, <<97, 40>>,
     <<113, 200>>}

Percentage(d, o) ==
    LET an == Abs(d)
        ad == Abs(o)
        neg == (d < 0) # (o < 0)
        g == Gcd(an, ad)
        ratio == <<an \div g, ad \div g>>
        k == (100 * an) \div ad
        twice == (200 * an) % (2 * ad)
    IN  IF twice # ad
        THEN LET m == IF twice > ad THEN k + 1 ELSE k IN IF neg THEN -m ELSE m
        ELSE IF neg
             THEN IF ratio \in FloatAboveTie THEN -(k + 1) ELSE -k
             ELSE IF ratio \in FloatBelowTie THEN k ELSE k + 1

(***************************************************************************)
(* getDeltaText                                                            *)
(***************************************************************************)
NewFileSuffix == <<" ", "(", "n", "e", "w", " ", "f", "i", "l", "e", ")">>
RemovedSuffix == <<" ", "(", "r", "e", "m", "o", "v", "e", "d", ")">>

PercentSuffix(percentage) ==
    <<" ", "(">> \o (IF percentage > 0 THEN <<"+">> ELSE <<>>) \o IntChars(percentage)
        \o <<"%", ")">>

getDeltaText_NoRemovedBranch(d, o) ==
    LET text == (IF d > 0 THEN <<"+">> ELSE <<>>) \o prettyBytes(d)
    IN  IF Abs(d) = 0 THEN text
        ELSE IF o = 0 THEN text \o NewFileSuffix
        ELSE text \o PercentSuffix(Percentage(d, o))

getDeltaText(d, o) ==
    LET text == (IF d > 0 THEN <<"+">> ELSE <<>>) \o prettyBytes(d)
    IN  IF Abs(d) = 0 THEN text
        ELSE IF o = 0 THEN text \o NewFileSuffix
        ELSE IF o = -d THEN text \o RemovedSuffix
        ELSE text \o PercentSuffix(Percentage(d, o))

(***************************************************************************)
(* iconForDifference                                                       *)
(***************************************************************************)
IconNew == <<"[new]">>
IconSos == <<"[sos]">>
IconSiren == <<"[siren]">>
IconWarning == <<"[warning]">>
IconMagnifier == <<"[magnifier]">>
IconTrophy == <<"[trophy]">>
IconParty == <<"[party]">>
IconClap == <<"[clap]">>
IconCheck == <<"[check]">>
NoIcon == <<>>

iconForDifference_StrictThresholds(d, o) ==
    IF o = 0 THEN IconNew
    ELSE LET percentage == Percentage(d, o)
         IN  IF percentage > 50 THEN IconSos
             ELSE IF percentage > 20 THEN IconSiren
             ELSE IF percentage > 10 THEN IconWarning
             ELSE IF percentage > 5 THEN IconMagnifier
             ELSE IF percentage < -50 THEN IconTrophy
             ELSE IF percentage < -20 THEN IconParty
             ELSE IF percentage < -10 THEN IconClap
             ELSE IF percentage < -5 THEN IconCheck
             ELSE NoIcon

iconForDifference(d, o) ==
    IF o = 0 THEN IconNew
    ELSE LET percentage == Percentage(d, o)
         IN  IF percentage >= 50 THEN IconSos
             ELSE IF percentage >= 20 THEN IconSiren
             ELSE IF percentage >= 10 THEN IconWarning
             ELSE IF percentage >= 5 THEN IconMagnifier
             ELSE IF percentage <= -50 THEN IconTrophy
             ELSE IF percentage <= -20 THEN IconParty
             ELSE IF percentage <= -10 THEN IconClap
             ELSE IF percentage <= -5 THEN IconCheck
             ELSE NoIcon

(***************************************************************************)
(* Idle values of the variables a specification does not use.              *)
(***************************************************************************)
ClassifierIdle == delta = 0 /\ originalSize = 0 /\ deltaText = <<>> /\ icon = <<>>
TableIdle == rows = <<>> /\ rowsArg = <<>> /\ columnLength = 0 /\ tableOut = <<>> /\ caller = "none"
DiffIdle ==
    /\ files = <<>>
    /\ options = [showTotal |-> FALSE, collapseUnchanged |-> FALSE, omitUnchanged |-> FALSE,
                  minimumChangeThreshold |-> 0]
    /\ idx = 1
    /\ changedRows = <<>>
    /\ unChangedRows = <<>>
    /\ totalSize = 0
    /\ totalDelta = 0
    /\ out = <<>>
StripIdle == regex = <<>> /\ fileName = <<>> /\ stripped = <<>>
CliIdle ==
    /\ cmd = "none"
    /\ disk = <<>>
    /\ sizes = <<>>
    /\ gist = [kind |-> "missing", wrapped |-> FALSE, snapshot |-> <<>>]
    /\ net = "none"
    /\ prev = [defined |-> FALSE, bundle |-> <<>>]
    /\ errorLog = <<>>
    /\ stdout = <<>>

(***************************************************************************)
(* The Delta Classifier on its own: both functions applied to one pair of  *)
(* arguments.                                                              *)
(***************************************************************************)
InitClassifier ==
    /\ pc = "classify"
    /\ delta \in -MaxDelta..MaxDelta
    /\ originalSize \in -MaxOrig..MaxOrig
    /\ deltaText = <<>>
    /\ icon = <<>>
    /\ TableIdle /\ DiffIdle /\ StripIdle /\ CliIdle

Classify ==
    /\ pc = "classify"
    /\ deltaText' = getDeltaText(delta, originalSize)
    /\ icon' = iconForDifference(delta, originalSize)
    /\ pc' = "classified"
    /\ UNCHANGED <<delta, originalSize, tableVars, diffVars, stripVars, cliVars>>

NextClassifier == Classify

SpecClassifier == InitClassifier /\ [][NextClassifier]_vars

(***************************************************************************)
(* markdownTable.  A row is a sequence of cells, a cell a string; a cell   *)
(* is falsy when it is the empty string or lies beyond the row's end       *)
(* (undefined).                                                            *)
(***************************************************************************)
HeaderCells ==
    << <<"F", "i", "l", "e", "n", "a", "m", "e">>, <<"S", "i", "z", "e">>,
       <<"C", "h", "a", "n", "g", "e">>, <<>> >>
AlignCells ==
    << <<":", "-", "-", "-">>, <<":", "-", "-", "-", ":">>, <<":", "-", "-", "-", ":">>,
       <<":", "-", "-", "-", ":">> >>
ZeroBytes == <<"0", " ", "B">>
Newline == <<"\n">>

\* !columns[columns.length - 1]
LastFalsy(columns) == IF Len(columns) = 0 THEN TRUE ELSE columns[Len(columns)] = <<>>

AllLastFalsy_FirstRowOnly(rs) == LastFalsy(rs[1])

\* rows.every((columns) => !columns[columns.length - 1])
AllLastFalsy(rs) == \A r \in 1..Len(rs) : LastFalsy(rs[r])

\* columns.pop(): nothing happens to an empty array
Pop(columns) == IF Len(columns) = 0 THEN columns ELSE SubSeq(columns, 1, Len(columns) - 1)

\* for (const columns of rows) columns.pop()
PopAll(rs) == [r \in 1..Len(rs) |-> Pop(rs[r])]

\* columnLength === 3 && rows.every((columns) => columns[2] === '0 B')
HideChange(rs, cl) ==
    cl = 3 /\ \A r \in 1..Len(rs) : Len(rs[r]) >= 3 /\ rs[r][3] = ZeroBytes

\* Array.prototype.slice(0, n)
Slice(cells, n) == SubSeq(cells, 1, IF n < Len(cells) THEN n ELSE Len(cells))

HeaderRow_NotSliced(cl) == HeaderCells

\* ['Filename', 'Size', 'Change', ''].slice(0, columnLength)
HeaderRow(cl) == Slice(HeaderCells, cl)

\* `| ${columns.join(' | ')} |`
RenderLine(columns) == <<"|", " ">> \o Join(columns, <<" ", "|", " ">>) \o <<" ", "|">>

\* [header, align, ...rows].map(...).join('\n')
RenderTable(rs, cl) ==
    LET all == <<HeaderRow(cl), Slice(AlignCells, cl)>> \o rs
    IN  Join([k \in 1..Len(all) |-> RenderLine(all[k])], Newline)

\* if (rows.length == 0) return ''
MT_Enter ==
    /\ pc = "mt_start"
    /\ IF Len(rows) = 0
       THEN tableOut' = <<>> /\ pc' = "mt_return"
       ELSE tableOut' = tableOut /\ pc' = "mt_trim"
    /\ UNCHANGED <<rows, rowsArg, columnLength, caller, classifierVars, diffVars, stripVars,
                   cliVars>>

\* one iteration of "while (rows.every(...)) { for (...) columns.pop(); }"
MT_TrimIter ==
    /\ pc = "mt_trim"
    /\ AllLastFalsy(rows)
    /\ rows' = PopAll(rows)
    /\ UNCHANGED <<pc, rowsArg, columnLength, tableOut, caller, classifierVars, diffVars,
                   stripVars, cliVars>>

\* the loop's exit and everything after it
MT_Render ==
    /\ pc = "mt_trim"
    /\ ~AllLastFalsy(rows)
    /\ LET firstLength == Len(rows[1])
           hide == HideChange(rows, firstLength)
           cl == IF hide THEN firstLength - 1 ELSE firstLength
           rs == IF hide THEN PopAll(rows) ELSE rows
       IN  /\ columnLength' = cl
           /\ rows' = rs
           /\ tableOut' = IF cl = 0 THEN <<>> ELSE RenderTable(rs, cl)
    /\ pc' = "mt_return"
    /\ UNCHANGED <<rowsArg, caller, classifierVars, diffVars, stripVars, cliVars>>

(***************************************************************************)
(* markdownTable on its own: rows of 3 or 4 cells.  The function tells a   *)
(* cell only by whether it is empty and, in the third column, by whether   *)
(* it reads "0 B".                                                         *)
(***************************************************************************)
FilenameCells == {<<>>, <<"[backtick]", "a", "[backtick]">>}
SizeCells == {<<>>, <<"1", " ", "B">>}
ChangeCells == {<<>>, ZeroBytes, <<"+", "1", " ", "B">>}
IconCells == {<<>>, IconNew}
RowChoices ==
    {<<f, s, c>> : f \in FilenameCells, s \in SizeCells, c \in ChangeCells}
    \cup {<<f, s, c[1], c[2]>> : f \in FilenameCells, s \in SizeCells,
                                 c \in ChangeCells \X IconCells}

InitTable ==
    /\ pc = "mt_start"
    /\ rows \in UNION {[1..n -> RowChoices] : n \in 0..MaxRows}
    /\ rowsArg = rows
    /\ columnLength = 0
    /\ tableOut = <<>>
    /\ caller = "none"
    /\ ClassifierIdle /\ DiffIdle /\ StripIdle /\ CliIdle

NextTable == MT_Enter \/ MT_TrimIter \/ MT_Render

SpecTable == InitTable /\ [][NextTable]_vars

(***************************************************************************)
(* diffTable.  A file diff is [filename, size, delta].  The for-of loop    *)
(* takes one step per file; markdownTable is called for the changed rows   *)
(* and then, if there are any, for the unchanged rows.                     *)
(***************************************************************************)
Backtick == <<"[backtick]">>
DetailsOpen ==
    <<"\n", "\n", "<", "d", "e", "t", "a", "i", "l", "s", ">", "<", "s", "u", "m", "m", "a",
      "r", "y", ">", "[info]", " ", "<", "s", "t", "r", "o", "n", "g", ">", "V", "i", "e",
      "w", " ", "U", "n", "c", "h", "a", "n", "g", "e", "d", "<", "/", "s", "t", "r", "o",
      "n", "g", ">", "<", "/", "s", "u", "m", "m", "a", "r", "y", ">", "\n", "\n">>
DetailsClose ==
    <<"\n", "\n", "<", "/", "d", "e", "t", "a", "i", "l", "s", ">", "\n", "\n">>
TotalSizeLabel ==
    <<"*", "*", "T", "o", "t", "a", "l", " ", "S", "i", "z", "e", ":", "*", "*", " ">>
SizeChangeLabel ==
    <<"*", "*", "S", "i", "z", "e", " ", "C", "h", "a", "n", "g", "e", ":", "*", "*", " ">>
BlankLine == <<"\n", "\n">>

IsUnchanged_Inclusive(d, threshold) == Abs(d) <= threshold

\* Math.abs(delta) < minimumChangeThreshold
IsUnchanged(d, threshold) == Abs(d) < threshold

AccumulateSize_AfterOmit(total, file, opts) ==
    IF IsUnchanged(file.delta, opts.minimumChangeThreshold) /\ opts.omitUnchanged
    THEN total
    ELSE total + file.size

\* totalSize += size, before anything is skipped
AccumulateSize(total, file, opts) == total + file.size

\* totalDelta += delta, before anything is skipped
AccumulateDelta(total, file, opts) == total + file.delta

\* the row of one file
Columns(file) ==
    LET original == file.size - file.delta
    IN  <<Backtick \o file.filename \o Backtick,
          prettyBytes(file.size),
          getDeltaText(file.delta, original),
          iconForDifference(file.delta, original)>>

\* one iteration of "for (const file of files)"
DT_Iterate ==
    /\ pc = "dt_loop"
    /\ idx <= Len(files)
    /\ LET file == files[idx]
           isUnchanged == IsUnchanged(file.delta, options.minimumChangeThreshold)
       IN  /\ totalSize' = AccumulateSize(totalSize, file, options)
           /\ totalDelta' = AccumulateDelta(totalDelta, file, options)
           /\ IF isUnchanged /\ options.omitUnchanged
              THEN UNCHANGED <<changedRows, unChangedRows>>
              ELSE IF isUnchanged /\ options.collapseUnchanged
                   THEN /\ unChangedRows' = Append(unChangedRows, Columns(file))
                        /\ UNCHANGED changedRows
                   ELSE /\ changedRows' = Append(changedRows, Columns(file))
                        /\ UNCHANGED unChangedRows
    /\ idx' = idx + 1
    /\ UNCHANGED <<pc, files, options, out, classifierVars, tableVars, stripVars, cliVars>>

\* let out = markdownTable(changedRows): the call
DT_CallChanged ==
    /\ pc = "dt_loop"
    /\ idx > Len(files)
    /\ rows' = changedRows
    /\ rowsArg' = changedRows
    /\ columnLength' = 0
    /\ tableOut' = <<>>
    /\ caller' = "changed"
    /\ pc' = "mt_start"
    /\ UNCHANGED <<diffVars, classifierVars, stripVars, cliVars>>

\* let out = markdownTable(changedRows): the return
DT_ReturnChanged ==
    /\ pc = "mt_return"
    /\ caller = "changed"
    /\ out' = tableOut
    /\ changedRows' = rows
    /\ pc' = "dt_unchanged"
    /\ UNCHANGED <<files, options, idx, unChangedRows, totalSize, totalDelta, classifierVars,
                   tableVars, stripVars, cliVars>>

\* if (unChangedRows.length !== 0) { const outUnchanged = markdownTable(unChangedRows) ...
DT_Unchanged ==
    /\ pc = "dt_unchanged"
    /\ IF Len(unChangedRows) # 0
       THEN /\ rows' = unChangedRows
            /\ rowsArg' = unChangedRows
            /\ columnLength' = 0
            /\ tableOut' = <<>>
            /\ caller' = "unchanged"
            /\ pc' = "mt_start"
       ELSE /\ pc' = "dt_total"
            /\ UNCHANGED tableVars
    /\ UNCHANGED <<diffVars, classifierVars, stripVars, cliVars>>

\* ... out += `\n\n<details>...${outUnchanged}\n\n</details>\n\n` }
DT_ReturnUnchanged ==
    /\ pc = "mt_return"
    /\ caller = "unchanged"
    /\ out' = out \o DetailsOpen \o tableOut \o DetailsClose
    /\ unChangedRows' = rows
    /\ pc' = "dt_total"
    /\ UNCHANGED <<files, options, idx, changedRows, totalSize, totalDelta, classifierVars,
                   tableVars, stripVars, cliVars>>

\* the two lines put in front of out when showTotal is set
TotalLines(body, ts, td) ==
    LET totalOriginalSize == ts - td
    IN  SizeChangeLabel \o getDeltaText(td, totalOriginalSize) \o <<" ">>
            \o iconForDifference(td, totalOriginalSize) \o BlankLine
            \o TotalSizeLabel \o prettyBytes(ts) \o BlankLine
            \o body

\* if (showTotal) { ... } return out
DT_Total ==
    /\ pc = "dt_total"
    /\ out' = IF options.showTotal THEN TotalLines(out, totalSize, totalDelta) ELSE out
    /\ pc' = "dt_done"
    /\ UNCHANGED <<files, options, idx, changedRows, unChangedRows, totalSize, totalDelta,
                   classifierVars, tableVars, stripVars, cliVars>>

(***************************************************************************)
(* diffTable on its own: lists of well-formed file diffs (size >= 0 and    *)
(* previous size = size - delta >= 0) and every combination of options.    *)
(***************************************************************************)
DefaultThreshold == 10
\* the rows of a report differ by their sizes; one filename is enough to tell them
FileNames == {<<"a", ".", "j", "s">>}
\* <<size, delta>>: new, removed, untouched, below the default threshold (without and
\* with an icon), at the threshold, empty before and after
SizeAndDelta ==
    {<<100, 100>>, <<0, -100>>, <<100, 0>>, <<102, 2>>, <<105, 5>>, <<110, 10>>, <<0, 0>>}
FileChoices ==
    {[filename |-> f, size |-> sd[1], delta |-> sd[2]] : f \in FileNames, sd \in SizeAndDelta}
OptionChoices ==
    [showTotal : BOOLEAN, collapseUnchanged : BOOLEAN, omitUnchanged : BOOLEAN,
     minimumChangeThreshold : {0, DefaultThreshold}]

InitDiff ==
    /\ pc = "dt_loop"
    /\ files \in UNION {[1..n -> FileChoices] : n \in 0..MaxFiles}
    /\ options \in OptionChoices
    /\ idx = 1
    /\ changedRows = <<>>
    /\ unChangedRows = <<>>
    /\ totalSize = 0
    /\ totalDelta = 0
    /\ out = <<>>
    /\ ClassifierIdle /\ TableIdle /\ StripIdle /\ CliIdle

NextDiff ==
    \/ DT_Iterate
    \/ DT_CallChanged
    \/ MT_Enter
    \/ MT_TrimIter
    \/ MT_Render
    \/ DT_ReturnChanged
    \/ DT_Unchanged
    \/ DT_ReturnUnchanged
    \/ DT_Total

SpecDiff == InitDiff /\ [][NextDiff]_vars

\* synchronous code: the running call always takes its next step
FairSpecDiff == SpecDiff /\ WF_vars(NextDiff)

(***************************************************************************)
(* stripHash.  A pattern is a sequence of atoms, each matching exactly one *)
(* character (a literal character, or \w), with at most one capture group  *)
(* around a run of atoms and an optional $ at its end: the shape of the    *)
(* pattern the CLI passes, \.(\w{8})\.js$.                                 *)
(***************************************************************************)
Alphabet == {"a", "b", "."}
WordChars == {"a", "b"}
Atoms == {[kind |-> "lit", ch |-> "a"], [kind |-> "lit", ch |-> "."], [kind |-> "word", ch |-> ""]}
NoGroup == [from |-> 0, len |-> 0]

\* the patterns of n atoms: the atoms, the group (from, len) or none, the $ anchor
PatternsOfLen(n) ==
    {[atoms |-> a, group |-> g, anchored |-> e] :
        a \in [1..n -> Atoms],
        g \in {NoGroup} \cup {[from |-> f, len |-> l] : f \in 1..n, l \in 0..n} ,
        e \in BOOLEAN}

WellFormedPattern(re) ==
    re.group.from = 0 \/ re.group.from + re.group.len - 1 <= Len(re.atoms)

AtomMatches(atom, ch) == IF atom.kind = "lit" THEN ch = atom.ch ELSE ch \in WordChars

\* the pattern matches s from position p on
MatchAt(re, s, p) ==
    LET n == Len(re.atoms)
    IN  /\ p + n - 1 <= Len(s)
        /\ \A k \in 1..n : AtomMatches(re.atoms[k], s[p + k - 1])
        /\ re.anchored => p + n - 1 = Len(s)

\* where the leftmost match starts, 0 if the pattern does not match
MatchPos(re, s) ==
    LET hits == {p \in 1..Len(s) : MatchAt(re, s, p)}
    IN  IF hits = {} THEN 0 ELSE CHOOSE p \in hits : \A q \in hits : p <= q

\* hash.replace(/./g, '*')
Stars(hash) == [k \in 1..Len(hash) |-> "*"]

\* masking at the position the group captured, the variant the code does not take
MaskHash_AtCapture(str, hash, at) ==
    SubSeq(str, 1, at - 1) \o Stars(hash) \o SubSeq(str, at + Len(hash), Len(str))

\* str = str.replace(hash, hash.replace(/./g, '*')): hash is a string, so the first
\* place where its text occurs in str is replaced; `at` is where the group captured it
MaskHash(str, hash, at) == ReplaceFirst(str, hash, Stars(hash))

\* the replace callback: (str, ...hashes) => ...
Replacement(re, str) ==
    IF re.group.from = 0
    THEN <<>>
    ELSE MaskHash(str, SubSeq(str, re.group.from, re.group.from + re.group.len - 1),
                  re.group.from)

\* fileName.replace(new RegExp(regex), callback)
StripHashOf(re, name) ==
    LET p == MatchPos(re, name)
        n == Len(re.atoms)
    IN  IF p = 0 THEN name
        ELSE SubSeq(name, 1, p - 1) \o Replacement(re, SubSeq(name, p, p + n - 1))
                 \o SubSeq(name, p + n, Len(name))

InitStrip ==
    /\ pc = "strip"
    /\ regex \in {re \in UNION {PatternsOfLen(n) : n \in 1..MaxPatternLen} :
                     WellFormedPattern(re)}
    /\ fileName \in UNION {[1..n -> Alphabet] : n \in 0..MaxNameLen}
    /\ stripped = <<>>
    /\ ClassifierIdle /\ TableIdle /\ DiffIdle /\ CliIdle

\* the function stripHash(regex) returns, applied to fileName
StripHash ==
    /\ pc = "strip"
    /\ stripped' = StripHashOf(regex, fileName)
    /\ pc' = "stripped"
    /\ UNCHANGED <<regex, fileName, classifierVars, tableVars, diffVars, cliVars>>

NextStrip == StripHash

SpecStrip == InitStrip /\ [][NextStrip]_vars

(***************************************************************************)
(* The CLI: compare and update (src/unnamed/part_000), with getGistContents*)
(* and updateGistContents.  A snapshot is the list of the entries of a     *)
(* filename -> size object in insertion order.  The stored file is         *)
(* missing, garbage (text JSON.parse rejects) or a JSON document: the      *)
(* snapshot itself (the old format) or, wrapped, {bundle: snapshot}.       *)
(* devStats is off, its default.                                           *)
(***************************************************************************)
TrimPathPattern == <<"/", "b", "u", "i", "l", "d", "/", "o", "u", "t", "p", "u", "t">>
ExcludePattern ==
    <<"/", "p", "r", "e", "c", "a", "c", "h", "e", "-", "m", "a", "n", "i", "f", "e", "s",
      "t", ".">>
NameA == TrimPathPattern \o <<"/", "a", ".", "j", "s">>
NameB == TrimPathPattern \o <<"/", "b", ".", "j", "s">>
NameManifest == ExcludePattern \o <<"j", "s">>
CleanA == <<"/", "a", ".", "j", "s">>
CleanB == <<"/", "b", ".", "j", "s">>

Entry(name, size) == [filename |-> name, size |-> size]

RECURSIVE cleanSizes(_)
cleanSizes(snapshot) ==
    IF snapshot = <<>> THEN <<>>
    ELSE LET e == Head(snapshot)
         IN  (IF Contains(e.filename, ExcludePattern) THEN <<>>
              ELSE <<Entry(ReplaceFirst(e.filename, TrimPathPattern, <<>>), e.size)>>)
                 \o cleanSizes(Tail(snapshot))

Keys(snapshot) == [k \in 1..Len(snapshot) |-> snapshot[k].filename]

\* snapshot[name] || 0
SizeOr0(snapshot, name) ==
    LET hits == {k \in 1..Len(snapshot) : snapshot[k].filename = name}
    IN  IF hits = {} THEN 0 ELSE snapshot[CHOOSE k \in hits : TRUE].size

RECURSIVE Unique(_)
\* the order of a Set built from a list: first occurrences
Unique(names) ==
    IF names = <<>> THEN <<>>
    ELSE LET rest == Unique(SubSeq(names, 1, Len(names) - 1))
             last == names[Len(names)]
         IN  IF \E k \in 1..Len(rest) : rest[k] = last THEN rest ELSE Append(rest, last)

\* plugin.getDiff(before, after) of size-plugin-core: one file diff per filename of
\* either snapshot, size = after || 0, delta = size - (before || 0)
getDiff(before, after) ==
    LET names == Unique(Keys(before) \o Keys(after))
    IN  [k \in 1..Len(names) |->
            [filename |-> names[k],
             size |-> SizeOr0(after, names[k]),
             delta |-> SizeOr0(after, names[k]) - SizeOr0(before, names[k])]]

\* a value that may be undefined
Undefined == [defined |-> FALSE, bundle |-> <<>>]
GistMissing == [kind |-> "missing", wrapped |-> FALSE, snapshot |-> <<>>]
GistGarbage == [kind |-> "garbage", wrapped |-> FALSE, snapshot |-> <<>>]
GistDocument(w, sn) == [kind |-> "json", wrapped |-> w, snapshot |-> sn]
GetGistError == "getGistContents error"
UpdateGistError == "updateGistContents error"
NetOutcomes == {"ok", "httpError", "reject"}

\* what getGistContents returns when nothing throws
NormalizedGist(stored) ==
    IF stored.kind = "missing" THEN [defined |-> TRUE, bundle |-> <<>>]
    ELSE [defined |-> TRUE, bundle |-> stored.snapshot]

\* getGistContents throws inside its try block
GetGistThrows(outcome, stored) ==
    outcome \in {"reject", "httpError"} \/ stored.kind = "garbage"

DiskChoices ==
    { <<>>,
      <<Entry(NameA, 100)>>,
      <<Entry(NameA, 110), Entry(NameManifest, 7)>>,
      <<Entry(NameA, 100), Entry(NameB, 50)>> }
StoredSnapshots == { <<Entry(CleanA, 100)>>, <<Entry(CleanA, 100), Entry(CleanB, 60)>> }
GistChoices ==
    {GistMissing, GistGarbage}
    \cup {GistDocument(w, sn) : w \in BOOLEAN, sn \in StoredSnapshots}

InitCli ==
    /\ cmd \in {"compare", "update"}
    /\ pc = IF cmd = "compare" THEN "cmp_start" ELSE "upd_start"
    /\ disk \in DiskChoices
    /\ gist \in GistChoices
    /\ sizes = <<>>
    /\ net = "none"
    /\ prev = Undefined
    /\ errorLog = <<>>
    /\ stdout = <<>>
    /\ ClassifierIdle /\ TableIdle /\ DiffIdle /\ StripIdle

\* compare: origSizes = await plugin.readFromDisk('./'); sizes = cleanSizes(origSizes)
C_ReadDisk ==
    /\ pc = "cmp_start"
    /\ sizes' = cleanSizes(disk)
    /\ pc' = "cmp_fetch"
    /\ UNCHANGED <<cmd, disk, gist, net, prev, errorLog, stdout, classifierVars, tableVars,
                   diffVars, stripVars>>

\* compare: prev = await getGistContents()
C_GetGist ==
    /\ pc = "cmp_fetch"
    /\ \E outcome \in NetOutcomes :
        /\ net' = outcome
        /\ IF GetGistThrows(outcome, gist)
           THEN /\ prev' = Undefined
                /\ errorLog' = Append(errorLog, GetGistError)
           ELSE /\ prev' = NormalizedGist(gist)
                /\ UNCHANGED errorLog
    /\ pc' = "cmp_diff"
    /\ UNCHANGED <<cmd, disk, sizes, gist, stdout, classifierVars, tableVars, diffVars,
                   stripVars>>

\* compare: diff = await plugin.getDiff(prev.bundle ?? {}, sizes), and the call of
\* diffTable.  Reading prev.bundle of undefined throws a TypeError nothing catches.
C_GetDiff ==
    /\ pc = "cmp_diff"
    /\ IF prev = Undefined
       THEN /\ pc' = "crashed"
            /\ UNCHANGED diffVars
       ELSE /\ files' = getDiff(prev.bundle, sizes)
            /\ options' = [showTotal |-> TRUE, collapseUnchanged |-> TRUE,
                           omitUnchanged |-> FALSE,
                           minimumChangeThreshold |-> DefaultThreshold]
            /\ idx' = 1
            /\ changedRows' = <<>>
            /\ unChangedRows' = <<>>
            /\ totalSize' = 0
            /\ totalDelta' = 0
            /\ out' = <<>>
            /\ pc' = "dt_loop"
    /\ UNCHANGED <<cliVars, classifierVars, tableVars, stripVars>>

\* compare: console.log(markdownDiff)
C_Print ==
    /\ pc = "dt_done"
    /\ cmd = "compare"
    /\ stdout' = Append(stdout, out)
    /\ pc' = "exit"
    /\ UNCHANGED <<cmd, disk, sizes, gist, net, prev, errorLog, classifierVars, tableVars,
                   diffVars, stripVars>>

\* update: origSizes = await plugin.readFromDisk('./'); sizes = cleanSizes(origSizes)
U_ReadDisk ==
    /\ pc = "upd_start"
    /\ sizes' = cleanSizes(disk)
    /\ pc' = "upd_store"
    /\ UNCHANGED <<cmd, disk, gist, net, prev, errorLog, stdout, classifierVars, tableVars,
                   diffVars, stripVars>>

\* update: await updateGistContents({bundle: sizes}).  Only a rejected fetch reaches
\* the catch block; the response is not looked at.
U_UpdateGist ==
    /\ pc = "upd_store"
    /\ \E outcome \in NetOutcomes :
        /\ net' = outcome
        /\ gist' = IF outcome = "ok" THEN GistDocument(TRUE, sizes) ELSE gist
        /\ errorLog' = IF outcome = "reject" THEN Append(errorLog, UpdateGistError)
                       ELSE errorLog
    /\ pc' = "exit"
    /\ UNCHANGED <<cmd, disk, sizes, prev, stdout, classifierVars, tableVars, diffVars,
                   stripVars>>

NextCli ==
    \/ C_ReadDisk
    \/ C_GetGist
    \/ C_GetDiff
    \/ DT_Iterate
    \/ DT_CallChanged
    \/ MT_Enter
    \/ MT_TrimIter
    \/ MT_Render
    \/ DT_ReturnChanged
    \/ DT_Unchanged
    \/ DT_ReturnUnchanged
    \/ DT_Total
    \/ C_Print
    \/ U_ReadDisk
    \/ U_UpdateGist

SpecCli == InitCli /\ [][NextCli]_vars

(***************************************************************************)
(* The properties checked, and what they are stated with.                  *)
(***************************************************************************)
Count(s, ch) == Cardinality({k \in 1..Len(s) : s[k] = ch})

RECURSIVE SplitLines(_)
\* the lines of a text, split at every "\n"
SplitLines(s) ==
    LET p == IndexOf(s, Newline)
    IN  IF p = 0 THEN <<s>>
        ELSE <<SubSeq(s, 1, p - 1)>> \o SplitLines(SubSeq(s, p + 1, Len(s)))

\* the number of columns of one line of a Markdown table
ColumnCount(line) == Count(line, "|") - 1

\* every line of the table has n columns, and there are two more lines than rows
IsTableOf(text, n, nRows) ==
    LET lines == SplitLines(text)
    IN  /\ Len(lines) = nRows + 2
        /\ \A k \in 1..Len(lines) : ColumnCount(lines[k]) = n

FilenameSizeChange ==
    <<"|", " ", "F", "i", "l", "e", "n", "a", "m", "e", " ", "|", " ", "S", "i", "z", "e",
      " ", "|", " ", "C", "h", "a", "n", "g", "e", " ", "|">>
FilenameSize ==
    <<"|", " ", "F", "i", "l", "e", "n", "a", "m", "e", " ", "|", " ", "S", "i", "z", "e",
      " ", "|">>

\* the threshold table of the Delta Classifier, one range per icon
ThresholdIcon(p) ==
    CASE p >= 50 -> IconSos
      [] p >= 20 /\ p < 50 -> IconSiren
      [] p >= 10 /\ p < 20 -> IconWarning
      [] p >= 5 /\ p < 10 -> IconMagnifier
      [] p > -5 /\ p < 5 -> NoIcon
      [] p <= -5 /\ p > -10 -> IconCheck
      [] p <= -10 /\ p > -20 -> IconClap
      [] p <= -20 /\ p > -50 -> IconParty
      [] p <= -50 -> IconTrophy

\* 100 * d / o rounded to the nearest integer, a tie away from zero (o > 0)
RoundHalfAwayFromZero(d, o) ==
    IF d >= 0 THEN (200 * d + o) \div (2 * o) ELSE -((200 * (-d) + o) \div (2 * o))

\* 100 * d / o rounded to the nearest integer, a tie toward +infinity (o > 0)
RoundHalfUp(d, o) == (200 * d + o) \div (2 * o)

\* C3 as the spec states it: for a positive originalSize the icon is the threshold
\* table's for the percentage rounded half away from zero.
C3_IconOfHalfAwayPercentage ==
    (pc = "classified" /\ originalSize > 0)
        => icon = ThresholdIcon(RoundHalfAwayFromZero(delta, originalSize))

\* C3 amended: for a positive originalSize the icon is the threshold table's for the
\* percentage rounded to the nearest integer with a tie going toward +infinity (as
\* Math.round does); 50 is critical-growth, 49 warning-growth, -50 trophy-shrink and
\* -49 celebration-shrink.
C3_IconOfHalfUpPercentage ==
    (pc = "classified" /\ originalSize > 0)
        => LET p == RoundHalfUp(delta, originalSize)
           IN  /\ icon = ThresholdIcon(p)
               /\ (p = 50 => icon = IconSos)
               /\ (p = 49 => icon = IconSiren)
               /\ (p = -50 => icon = IconTrophy)
               /\ (p = -49 => icon = IconParty)

\* -49.5 % is rounded to -49, which is celebration-shrink and not trophy-shrink
C3_Witness ==
    /\ pc = "classified"
    /\ originalSize = 200
    /\ delta = -99
    /\ icon = IconParty

RemovedText == <<"(", "r", "e", "m", "o", "v", "e", "d", ")">>

\* C4 as the spec states it: whenever originalSize = -delta, the delta text ends with
\* "(removed)".
C4_RemovedWheneverSizesCancel ==
    (pc = "classified" /\ originalSize = -delta) => EndsWith(deltaText, RemovedText)

\* C4 amended: whenever originalSize = -delta and delta is not 0, the delta text ends
\* with "(removed)".
C4_RemovedWhenNonZeroDelta ==
    (pc = "classified" /\ originalSize = -delta /\ delta # 0)
        => EndsWith(deltaText, RemovedText)

C4_Witness ==
    /\ pc = "classified"
    /\ delta = -100
    /\ originalSize = 100
    /\ EndsWith(deltaText, RemovedText)

\* no row has a non-empty fourth cell
IconColumnEmpty(rs) == \A r \in 1..Len(rs) : IF Len(rs[r]) >= 4 THEN rs[r][4] = <<>> ELSE TRUE

\* C2 as the spec states it: rows whose icon column is empty everywhere give a table of
\* exactly 3 columns (Filename, Size, Change); no rows give the empty string.
C2_ThreeColumnsWithoutIcons ==
    (pc = "mt_return" /\ caller = "none")
        => IF rowsArg = <<>> THEN tableOut = <<>>
           ELSE IconColumnEmpty(rowsArg)
                    => /\ IsTableOf(tableOut, 3, Len(rowsArg))
                       /\ StartsWith(tableOut, FilenameSizeChange \o Newline)

\* the rows C2 amended speaks of: 4 cells each, no icon, a Change cell that is not empty
FourCellsNoIcon(rs) ==
    /\ rs # <<>>
    /\ \A r \in 1..Len(rs) : Len(rs[r]) = 4 /\ rs[r][4] = <<>>
    /\ \E r \in 1..Len(rs) : rs[r][3] # <<>>

\* C2 amended: for a non-empty set of 4-cell rows whose icon cell is empty in every row
\* and whose Change cell is not empty in at least one row, the table has exactly 3 columns
\* (Filename, Size, Change) in every line, unless every Change cell reads "0 B": then
\* the Change column is dropped too and every line has exactly 2 columns (Filename,
\* Size).  No rows give the empty string.
C2_ThreeColumnsUnlessAllZero ==
    (pc = "mt_return" /\ caller = "none")
        => IF rowsArg = <<>> THEN tableOut = <<>>
           ELSE FourCellsNoIcon(rowsArg)
                    => IF \A r \in 1..Len(rowsArg) : rowsArg[r][3] = ZeroBytes
                       THEN /\ IsTableOf(tableOut, 2, Len(rowsArg))
                            /\ StartsWith(tableOut, FilenameSize \o Newline)
                       ELSE /\ IsTableOf(tableOut, 3, Len(rowsArg))
                            /\ StartsWith(tableOut, FilenameSizeChange \o Newline)

C2_Witness ==
    /\ pc = "mt_return"
    /\ caller = "none"
    /\ Len(rowsArg) = 2
    /\ FourCellsNoIcon(rowsArg)
    /\ rowsArg[1][3] = ZeroBytes
    /\ rowsArg[2][3] # ZeroBytes
    /\ IsTableOf(tableOut, 3, 2)

\* C9: when trimming has left no column in any row, the trimming loop is over (and the
\* empty string is returned).  A state that violates this is one the loop never leaves:
\* its condition holds and there is nothing left to pop.
C9_TrimmingEndsWhenNoColumnIsLeft ==
    (pc = "mt_trim" /\ \A r \in 1..Len(rows) : Len(rows[r]) = 0) => ~AllLastFalsy(rows)

\* what the claims call the place of a file diff
Place(file, opts) ==
    LET isUnchanged == Abs(file.delta) < opts.minimumChangeThreshold
    IN  CASE isUnchanged /\ opts.omitUnchanged -> "dropped"
          [] isUnchanged /\ opts.collapseUnchanged /\ ~opts.omitUnchanged -> "unchanged"
          [] OTHER -> "changed"

RECURSIVE GroupOf(_, _, _)
\* the file diffs of one place, in input order
GroupOf(fs, opts, place) ==
    IF fs = <<>> THEN <<>>
    ELSE (IF Place(Head(fs), opts) = place THEN <<Head(fs)>> ELSE <<>>)
             \o GroupOf(Tail(fs), opts, place)

RowsOf(fs) == [k \in 1..Len(fs) |-> Columns(fs[k])]

RECURSIVE SumSize(_)
SumSize(fs) == IF fs = <<>> THEN 0 ELSE Head(fs).size + SumSize(Tail(fs))

RECURSIVE SumDelta(_)
SumDelta(fs) == IF fs = <<>> THEN 0 ELSE Head(fs).delta + SumDelta(Tail(fs))

TwoStars == <<"*", "*">>
ViewUnchanged == <<"V", "i", "e", "w", " ", "U", "n", "c", "h", "a", "n", "g", "e", "d">>

\* C5: with showTotal the report starts with the size change line, made of
\* getDeltaText(sum of delta, sum of size - sum of delta), and the total size line,
\* made of the sum of size, both sums over all input file diffs, omitted and collapsed
\* ones included; everything else follows them.  Without showTotal there is no total
\* line.
C5_TotalsCoverEveryFile ==
    pc = "dt_done"
        => IF options.showTotal
           THEN LET ts == SumSize(files)
                    td == SumDelta(files)
                    head == SizeChangeLabel \o getDeltaText(td, ts - td) \o <<" ">>
                                \o iconForDifference(td, ts - td) \o BlankLine
                                \o TotalSizeLabel \o prettyBytes(ts) \o BlankLine
                IN  /\ StartsWith(out, head)
                    /\ ~Contains(SubSeq(out, Len(head) + 1, Len(out)), TwoStars)
           ELSE ~Contains(out, TwoStars)

\* totals shown although a file that counts in them was omitted from the report
C5_Witness ==
    /\ pc = "dt_done"
    /\ options.showTotal
    /\ Len(files) = 2
    /\ GroupOf(files, options, "dropped") # <<>>
    /\ SumSize(GroupOf(files, options, "dropped")) > 0
    /\ GroupOf(files, options, "changed") # <<>>
    /\ StartsWith(out, SizeChangeLabel)

\* C6: when the loop is over the changed group and the unchanged group hold, in input
\* order, the rows of the file diffs the three rules place there, and the dropped ones
\* are in neither; the "View Unchanged" block is in the report iff the unchanged group
\* is not empty, and it comes after the main table.
C6_EveryFileInOnePlace ==
    LET changed == GroupOf(files, options, "changed")
        unchanged == GroupOf(files, options, "unchanged")
        dropped == GroupOf(files, options, "dropped")
        block == DetailsOpen \o tableOut \o DetailsClose
    IN  /\ (pc = "dt_loop" /\ idx > Len(files))
               => /\ changedRows = RowsOf(changed)
                  /\ unChangedRows = RowsOf(unchanged)
                  /\ Len(changed) + Len(unchanged) + Len(dropped) = Len(files)
        /\ (pc = "dt_total" /\ unchanged = <<>>) => ~Contains(out, ViewUnchanged)
        /\ (pc = "dt_total" /\ unchanged # <<>>)
               => /\ EndsWith(out, block)
                  /\ ~Contains(SubSeq(out, 1, Len(out) - Len(block)), <<"<">>)
                  /\ (changed # <<>> => StartsWith(out, <<"|", " ", "F">>))
        /\ pc = "dt_done" => (Contains(out, ViewUnchanged) <=> unchanged # <<>>)

\* a delta equal to the threshold is in the changed group, a smaller one is collapsed
C6_Witness ==
    /\ pc = "dt_total"
    /\ options.minimumChangeThreshold = DefaultThreshold
    /\ options.collapseUnchanged
    /\ ~options.omitUnchanged
    /\ Len(files) = 2
    /\ files[1].delta = 2
    /\ files[2].delta = DefaultThreshold
    /\ Contains(out, ViewUnchanged)

\* a table markdownTable has just returned to diffTable
TableRectangular ==
    (pc = "mt_return" /\ caller # "none")
        => IF rowsArg = <<>> THEN tableOut = <<>>
           ELSE /\ columnLength \in 2..4
                /\ IsTableOf(tableOut, columnLength, Len(rowsArg))
                /\ StartsWith(tableOut, FilenameSize)

\* C10: diffTable terminates, and each table it renders has between 2 and 4 columns,
\* Filename and Size among them, and as many columns in the header, in the alignment
\* row and in every body row.
C10_TerminatesWithRectangularTables == [](TableRectangular) /\ <>(pc = "dt_done")

\* the unchanged rows were rendered with 2 columns, the changed rows with 4
C10_Witness ==
    /\ pc = "mt_return"
    /\ caller = "unchanged"
    /\ columnLength = 2
    /\ changedRows # <<>>
    /\ Len(changedRows[1]) = 4
    /\ IsTableOf(tableOut, 2, Len(rowsArg))

\* the positions of fileName the capture group of the leftmost match covers
CapturedPositions(re, name) ==
    LET p == MatchPos(re, name)
    IN  {p + re.group.from - 1 + k : k \in 0..(re.group.len - 1)}

\* C8: no match leaves the filename as it is; a match with a non-empty capture gives a
\* result of the same length that differs from the filename exactly at the captured
\* positions, each of which is '*'.
C8_CapturedPositionsAreMasked ==
    pc = "stripped"
        => IF MatchPos(regex, fileName) = 0
           THEN stripped = fileName
           ELSE (regex.group.from # 0 /\ regex.group.len > 0)
                    => /\ Len(stripped) = Len(fileName)
                       /\ \A k \in 1..Len(fileName) :
                              stripped[k] = IF k \in CapturedPositions(regex, fileName)
                                            THEN "*"
                                            ELSE fileName[k]

\* the stored baseline could not be retrieved
BaselineFailed == net \in {"reject", "httpError"} \/ (net = "ok" /\ gist.kind \in {"missing", "garbage"})

\* C1: when retrieving the baseline fails, compare does not abort, and the report it
\* prints has every file of the current build as a new file.
C1_CompareSurvivesAFailedBaseline ==
    (cmd = "compare" /\ BaselineFailed)
        => /\ pc # "crashed"
           /\ pc = "exit"
                  => /\ Len(stdout) = 1
                     /\ Len(files) = Len(sizes)
                     /\ \A k \in 1..Len(files) : files[k].delta = files[k].size

\* C7: when update is over and storing the snapshot failed, the failure was logged.
C7_EveryStoreFailureIsLogged ==
    (cmd = "update" /\ pc = "exit" /\ net \in {"reject", "httpError"})
        => errorLog = <<UpdateGistError>>

====
